---------------------------- MODULE Spec2Model ----------------------------
(***************************************************************************)
(* NetDiag: the port scanner (src/commands/scan.rs) and the port           *)
(* specification parser (src/utils/ports.rs).                              *)
(*                                                                         *)
(* A Rust &str is modelled as a sequence of one-character strings, so that *)
(* split, trim, contains and parse::<u16> are computed character by        *)
(* character as the library computes them.                                 *)
(***************************************************************************)
EXTENDS Integers, Sequences, FiniteSets, TLC

(***************************************************************************)
(* Bounds of the model.                                                    *)
(***************************************************************************)
\* largest concurrency ceiling tried (the -c argument)
MaxConcurrency == 2
\* largest number of comma-separated tokens in a generated port specification
MaxTokens == 2
\* number of times the scan command is run in SpecRepeat
MaxRuns == 2

(***************************************************************************)
(* Program constants.                                                      *)
(***************************************************************************)
\* u16::MAX, the range of the port type Vec<u16>
U16Max == 65535

(***************************************************************************)
(* String helpers (Rust core::str).                                        *)
(***************************************************************************)
Digits == <<"0", "1", "2", "3", "4", "5", "6", "7", "8", "9">>

IsDigit(c) == \E d \in 1..10 : Digits[d] = c

DigitValue(c) == (CHOOSE d \in 1..10 : Digits[d] = c) - 1

IsWhitespace(c) == c \in {" ", "\t"}

UpperCase == <<"A", "B", "C", "D", "E", "F", "G", "H", "I", "J", "K", "L", "M",
               "N", "O", "P", "Q", "R", "S", "T", "U", "V", "W", "X", "Y", "Z">>

LowerCase == <<"a", "b", "c", "d", "e", "f", "g", "h", "i", "j", "k", "l", "m",
               "n", "o", "p", "q", "r", "s", "t", "u", "v", "w", "x", "y", "z">>

\* u8::to_ascii_lowercase
ToAsciiLowercase(c) ==
    IF \E k \in 1..26 : UpperCase[k] = c
    THEN LowerCase[CHOOSE k \in 1..26 : UpperCase[k] = c]
    ELSE c

\* str::eq_ignore_ascii_case, when every letter case counts (a faulty variant)
EqCaseSensitive(a, b) == a = b

\* str::eq_ignore_ascii_case
EqIgnoreAsciiCase(a, b) ==
    /\ Len(a) = Len(b)
    /\ \A k \in 1..Len(a) : ToAsciiLowercase(a[k]) = ToAsciiLowercase(b[k])

RECURSIVE TrimStart(_)
TrimStart(s) ==
    IF s # <<>> /\ IsWhitespace(Head(s)) THEN TrimStart(Tail(s)) ELSE s

RECURSIVE TrimEnd(_)
TrimEnd(s) ==
    IF s # <<>> /\ IsWhitespace(s[Len(s)])
    THEN TrimEnd(SubSeq(s, 1, Len(s) - 1))
    ELSE s

\* a trim of the leading whitespace only (a faulty variant)
TrimLeadingOnly(s) == TrimStart(s)

\* str::trim
Trim(s) == TrimEnd(TrimStart(s))

\* str::contains(char)
Contains(s, c) == \E k \in 1..Len(s) : s[k] = c

\* str::split(char).collect(): always at least one piece, empty pieces kept
RECURSIVE Split(_, _)
Split(s, c) ==
    IF ~Contains(s, c)
    THEN <<s>>
    ELSE LET k == CHOOSE j \in 1..Len(s) :
                      /\ s[j] = c
                      /\ \A h \in 1..(j - 1) : s[h] # c
         IN  <<SubSeq(s, 1, k - 1)>> \o Split(SubSeq(s, k + 1, Len(s)), c)

\* the accumulation loop of u16::from_str: -1 on overflow
RECURSIVE DecimalValue(_, _)
DecimalValue(s, acc) ==
    IF acc = -1 THEN -1
    ELSE IF s = <<>> THEN acc
    ELSE LET v == acc * 10 + DigitValue(Head(s))
         IN  DecimalValue(Tail(s), IF v > U16Max THEN -1 ELSE v)

\* str::parse::<u16>(): an optional '+', then one or more digits, no overflow
ParseU16(s) ==
    LET digits == IF s # <<>> /\ Head(s) = "+" THEN Tail(s) ELSE s
        val    == DecimalValue(digits, 0)
    IN  IF digits = <<>> \/ \E k \in 1..Len(digits) : ~IsDigit(digits[k])
        THEN [ok |-> FALSE, val |-> 0]
        ELSE IF val = -1 THEN [ok |-> FALSE, val |-> 0]
        ELSE [ok |-> TRUE, val |-> val]

(***************************************************************************)
(* Collections.                                                            *)
(***************************************************************************)
Max(S) == CHOOSE x \in S : \A y \in S : y <= x

\* HashSet::into_iter().collect() / iter().collect(): some order of the
\* elements; the descending one is taken, which the sort has to undo
RECURSIVE IntoIterCollect(_)
IntoIterCollect(S) ==
    IF S = {} THEN <<>>
    ELSE <<Max(S)>> \o IntoIterCollect(S \ {Max(S)})

RECURSIVE InsertSorted(_, _)
InsertSorted(x, s) ==
    IF s = <<>> THEN <<x>>
    ELSE IF x <= Head(s) THEN <<x>> \o s
    ELSE <<Head(s)>> \o InsertSorted(x, Tail(s))

\* a sort that leaves the vector as it is (a faulty variant)
SortNoop(s) == s

\* Vec::sort / sort_unstable on integers: the ascending permutation
RECURSIVE Sort(_)
Sort(s) == IF s = <<>> THEN <<>> ELSE InsertSorted(Head(s), Sort(Tail(s)))

(***************************************************************************)
(* src/utils/ports.rs                                                      *)
(***************************************************************************)
\* a range that stops one short of its end (a faulty variant)
RangeExclusive(start, end) == start..(end - 1)

\* line 26: start..=end
RangeInclusive(start, end) == start..end

\* a check that lets more than two pieces through (a faulty variant)
RangeFormatOkAtLeastTwo(range_parts) == Len(range_parts) >= 2

\* line 13: range_parts.len() != 2 is an error
RangeFormatOk(range_parts) == Len(range_parts) = 2

\* one iteration of the for loop of parse_port_range on the trimmed part:
\* the ports it inserts, or the error it returns
ParsePart(part) ==
    IF Contains(part, "-")
    THEN LET range_parts == Split(part, "-")
         IN  IF ~RangeFormatOk(range_parts)
             THEN [ok |-> FALSE, err |-> "InvalidRangeFormat", ports |-> {}]
             ELSE LET start == ParseU16(range_parts[1])
                      end   == ParseU16(range_parts[2])
                  IN  IF ~start.ok
                      THEN [ok |-> FALSE, err |-> "InvalidStartPort", ports |-> {}]
                      ELSE IF ~end.ok
                      THEN [ok |-> FALSE, err |-> "InvalidEndPort", ports |-> {}]
                      ELSE IF start.val > end.val
                      THEN [ok |-> FALSE, err |-> "StartGreaterThanEnd", ports |-> {}]
                      ELSE [ok |-> TRUE, err |-> "",
                            ports |-> RangeInclusive(start.val, end.val)]
    ELSE LET port == ParseU16(part)
         IN  IF ~port.ok
             THEN [ok |-> FALSE, err |-> "InvalidPortNumber", ports |-> {}]
             ELSE IF port.val = 0
             THEN [ok |-> FALSE, err |-> "PortZero", ports |-> {}]
             ELSE [ok |-> TRUE, err |-> "", ports |-> {port.val}]

\* a loop that skips a failing part and goes on (a faulty variant)
RECURSIVE ParsePartsSkipInvalid(_, _)
ParsePartsSkipInvalid(parts, ports) ==
    IF parts = <<>> THEN [ok |-> TRUE, err |-> "", ports |-> ports]
    ELSE LET r == ParsePart(Trim(Head(parts)))
         IN  ParsePartsSkipInvalid(Tail(parts), ports \cup r.ports)

\* the for loop of parse_port_range: the first failing part ends it
RECURSIVE ParseParts(_, _)
ParseParts(parts, ports) ==
    IF parts = <<>> THEN [ok |-> TRUE, err |-> "", ports |-> ports]
    ELSE LET r == ParsePart(Trim(Head(parts)))
         IN  IF ~r.ok THEN r
             ELSE ParseParts(Tail(parts), ports \cup r.ports)

\* parse_port_range: Ok(port_vec) or Err
parse_port_range(port_spec) ==
    LET r == ParseParts(Split(port_spec, ","), {})
    IN  IF ~r.ok THEN [ok |-> FALSE, err |-> r.err, ports |-> <<>>]
        ELSE IF r.ports = {}
        THEN [ok |-> FALSE, err |-> "NoPortsSpecified", ports |-> <<>>]
        ELSE [ok |-> TRUE, err |-> "", ports |-> Sort(IntoIterCollect(r.ports))]

get_common_ports ==
    <<20, 21, 22, 23, 25, 53, 80, 110, 143, 443, 993, 995,
      1433, 3306, 5432, 6379, 27017>>

(***************************************************************************)
(* Inputs: port specifications, as the comma-free pieces they are made of. *)
(***************************************************************************)
T22 == <<"2", "2">>
T80 == <<"8", "0">>
T81 == <<"8", "1">>
T82 == <<"8", "2">>
T443 == <<"4", "4", "3">>
T080 == <<"0", "8", "0">>
TPlus80 == <<"+", "8", "0">>
TPadded80 == <<" ", "8", "0", " ">>
T65535 == <<"6", "5", "5", "3", "5">>
T80to82 == <<"8", "0", "-", "8", "2">>
T81to81 == <<"8", "1", "-", "8", "1">>
T80to82Spaced == <<"8", "0", " ", "-", " ", "8", "2">>
T0 == <<"0">>
T0to2 == <<"0", "-", "2">>
T65536 == <<"6", "5", "5", "3", "6">>
TAbc == <<"a", "b", "c">>
T443to80 == <<"4", "4", "3", "-", "8", "0">>
T80Dash == <<"8", "0", "-">>
TDash80 == <<"-", "8", "0">>
T1to2to3 == <<"1", "-", "2", "-", "3">>
T80DashDash82 == <<"8", "0", "-", "-", "8", "2">>
TEmpty == <<>>
TCommon == <<"c", "o", "m", "m", "o", "n">>
TCommonUpper == <<"C", "O", "M", "M", "O", "N">>
TCommonPadded == <<" ", "C", "o", "m", "m", "o", "n", "\t">>

TokenSet ==
    {T22, T80, T81, T443, T080, TPlus80, TPadded80, T65535, T80to82, T81to81,
     T80to82Spaced, T0, T0to2, T65536, TAbc, T443to80, T80Dash, TDash80,
     T1to2to3, T80DashDash82, TEmpty}

\* the -p argument assembled from its pieces
RECURSIVE JoinComma(_)
JoinComma(toks) ==
    IF toks = <<>> THEN <<>>
    ELSE IF Len(toks) = 1 THEN toks[1]
    ELSE toks[1] \o <<",">> \o JoinComma(Tail(toks))

TokenSeqs == UNION {[1..n -> TokenSet] : n \in 1..MaxTokens}

CommonSpecs == {<<TCommon>>, <<TCommonUpper>>, <<TCommonPadded>>}

\* the specifications scanned under every backend and ceiling
ScanSpecs == {<<T22>>, <<T80to82>>, <<T82, T80>>, <<T80to82, T22>>, <<TAbc>>}

\* the ports the backend is chosen for; every other port refuses
ScanUniverse == {80, 81, 82}

\* how the target answers a connect to a port: accept at once, refuse,
\* drop the SYN (the connect never completes), or accept late (the connect
\* completes, before or after the deadline)
Behaviours == {"accept", "refuse", "drop", "slow"}

(***************************************************************************)
(* src/commands/scan.rs: the state of one run of scan_command.             *)
(***************************************************************************)
VARIABLES
    host_ok,        \* input: whether resolve_hostname(&host) returns Ok
    tokens,         \* input: the comma-free pieces of the -p argument
    ports,          \* input: the -p argument (ports: String)
    concurrency,    \* input: the -c argument (concurrency: usize)
    backend,        \* input: how the target answers on each port
    pc,             \* position of scan_command
    exit_reason,    \* which return statement scan_command took ("" = none yet)
    port_list,      \* port_list: Vec<u16>
    permits,        \* available permits of the Semaphore
    permit_held,    \* the issuing loop holds a permit it has not yet moved into a task
    next_idx,       \* number of tasks spawned (handles.len())
    task_pc,        \* position of each spawned task
    outcome,        \* how each task's timeout(connect) race resolved
    is_open,        \* each task's local is_open
    open_ports,     \* the HashSet behind the Mutex
    mutex,          \* holder of the tokio Mutex: 0 = free, i = task i
    pb_pos,         \* position of the progress bar
    join_idx,       \* number of handles awaited by the join loop
    report,         \* what the result display printed
    sorted_ports,   \* sorted_ports of the result display
    run,            \* how many times the command has been started
    prev_sorted,    \* the sorted_ports of the previous run
    insert_log,     \* history: the ports in the order they were inserted
    err_msg,        \* the error printed at line 51 ("" = none)
    c_host_ok,      \* connect input: whether resolve_hostname(&host) returns Ok
    c_udp,          \* connect input: the -u flag (udp: bool)
    c_net,          \* connect input: how the network answers each operation
    c_pc,           \* position of connect_command
    c_status,       \* how the connection test classified its result
    c_recv_tried,   \* socket.recv_from was called
    c_exit,         \* which return statement connect_command took
    h_follow,       \* http input: client.follow_redirects
    h_pc,           \* position of perform_http_request
    redirects_followed, \* redirects_followed of perform_http_request
    h_requests,     \* history: calls of send_http_request_once
    h_status,       \* status_code of the last response
    h_location,     \* redirect_target of the last response
    h_result,       \* what perform_http_request returned ("" = not yet)
    r_host_ok,      \* report input: whether resolve_hostname(&host) returns Ok
    r_detailed,     \* report input: detailed_scan
    r_output,       \* report input: output, and whether the write succeeds
    r_pc,           \* position of report_command
    r_tests,        \* report.tests: test name -> success
    r_summary,      \* report.summary
    r_exit          \* which return statement report_command took

inputs == <<host_ok, tokens, ports, concurrency, backend>>

scan == <<pc, exit_reason, port_list, permits, permit_held, next_idx, task_pc,
          outcome, is_open, open_ports, mutex, pb_pos, join_idx, report,
          sorted_ports>>

\* the state of connect_command (src/commands/connect.rs)
conn == <<c_host_ok, c_udp, c_net, c_pc, c_status, c_recv_tried, c_exit>>

\* the state of perform_http_request (src/commands/http.rs)
http == <<h_follow, h_pc, redirects_followed, h_requests, h_status,
          h_location, h_result>>

\* the state of report_command (src/commands/report.rs)
rep == <<r_host_ok, r_detailed, r_output, r_pc, r_tests, r_summary, r_exit>>

vars == <<inputs, scan, run, prev_sorted, insert_log, err_msg, conn, http, rep>>

Tasks == 1..Len(port_list)

\* TcpStream::connect(addr) against the target
Behaviour(port) == IF port \in DOMAIN backend THEN backend[port] ELSE "refuse"

\* the state at the entry of scan_command
ScanEntry ==
    /\ pc = "resolve"
    /\ exit_reason = ""
    /\ port_list = <<>>
    /\ permits = 0
    /\ permit_held = FALSE
    /\ next_idx = 0
    /\ task_pc = <<>>
    /\ outcome = <<>>
    /\ is_open = <<>>
    /\ open_ports = {}
    /\ mutex = 0
    /\ pb_pos = 0
    /\ join_idx = 0
    /\ report = ""
    /\ sorted_ports = <<>>
    /\ insert_log = <<>>
    /\ err_msg = ""

\* connect_command is not running
ConnIdle ==
    /\ c_host_ok = TRUE
    /\ c_udp = FALSE
    /\ c_net = [tcp |-> "connected", local_addr |-> "ok", bind |-> "ok",
                send |-> "ok", recv |-> "reply"]
    /\ c_pc = "idle"
    /\ c_status = ""
    /\ c_recv_tried = FALSE
    /\ c_exit = ""

\* perform_http_request is not running
HttpIdle ==
    /\ h_follow = FALSE
    /\ h_pc = "idle"
    /\ redirects_followed = 0
    /\ h_requests = 0
    /\ h_status = 0
    /\ h_location = "none"
    /\ h_result = ""

\* lines 60-65: the summary of a new NetworkReport
NewSummary ==
    [total_tests |-> 0, passed_tests |-> 0, failed_tests |-> 0,
     overall_status |-> "Unknown"]

\* report_command is not running
ReportIdle ==
    /\ r_host_ok = TRUE
    /\ r_detailed = FALSE
    /\ r_output = "none"
    /\ r_pc = "idle"
    /\ r_tests = <<>>
    /\ r_summary = NewSummary
    /\ r_exit = ""

\* a backend that shows every behaviour
MixedBackend ==
    [p \in ScanUniverse |->
        CASE p = 80 -> "accept"
          [] p = 81 -> "drop"
          [] p = 82 -> "slow"
          [] OTHER -> "refuse"]

\* the scanned specifications under every backend and ceiling, and the
\* "common" preset under one backend
Init ==
    /\ host_ok \in BOOLEAN
    /\ \/ /\ tokens \in ScanSpecs
          /\ backend \in [ScanUniverse -> Behaviours]
       \/ /\ tokens = <<TCommon>>
          /\ backend = MixedBackend
    /\ ports = JoinComma(tokens)
    /\ concurrency \in 0..MaxConcurrency
    /\ ScanEntry
    /\ run = 1
    /\ prev_sorted = <<>>
    /\ ConnIdle
    /\ HttpIdle
    /\ ReportIdle

\* every generated specification and the spellings of "common", one ceiling,
\* one backend
InitParse ==
    /\ host_ok \in BOOLEAN
    /\ tokens \in TokenSeqs \cup CommonSpecs
    /\ ports = JoinComma(tokens)
    /\ concurrency = 1
    /\ backend = MixedBackend
    /\ ScanEntry
    /\ run = 1
    /\ prev_sorted = <<>>
    /\ ConnIdle
    /\ HttpIdle
    /\ ReportIdle

(***************************************************************************)
(* scan_command, lines 24-35: resolve the host.                            *)
(***************************************************************************)
ResolveOk ==
    /\ pc = "resolve"
    /\ host_ok
    /\ pc' = "ports"
    /\ UNCHANGED <<inputs, exit_reason, port_list, permits, permit_held,
                   next_idx, task_pc, outcome, is_open, open_ports, mutex,
                   pb_pos, join_idx, report, sorted_ports, run, prev_sorted, insert_log, err_msg, conn, http, rep>>

ResolveErr ==
    /\ pc = "resolve"
    /\ ~host_ok
    /\ pc' = "done"
    /\ exit_reason' = "resolve_failed"
    /\ UNCHANGED <<inputs, port_list, permits, permit_held,
                   next_idx, task_pc, outcome, is_open, open_ports, mutex,
                   pb_pos, join_idx, report, sorted_ports, run, prev_sorted, insert_log, err_msg, conn, http, rep>>

(***************************************************************************)
(* scan_command, lines 38-72: determine the ports, then create the         *)
(* progress bar, the semaphore, the handles and the shared set.            *)
(***************************************************************************)
\* ports_trimmed.eq_ignore_ascii_case("common")
IsCommon(ports_trimmed) == EqIgnoreAsciiCase(ports_trimmed, TCommon)

\* lines 57-72, with the port list decided
StartScan(list) ==
    /\ port_list' = list
    /\ permits' = concurrency
    /\ task_pc' = [i \in 1..Len(list) |-> "unspawned"]
    /\ outcome' = [i \in 1..Len(list) |-> "pending"]
    /\ is_open' = [i \in 1..Len(list) |-> FALSE]
    /\ pc' = "acquire"
    /\ UNCHANGED <<inputs, exit_reason, permit_held, next_idx, open_ports,
                   mutex, pb_pos, join_idx, report, sorted_ports, run,
                   prev_sorted, insert_log, err_msg, conn, http, rep>>

DeterminePortsCommon ==
    /\ pc = "ports"
    /\ IsCommon(Trim(ports))
    /\ StartScan(Sort(get_common_ports))

DeterminePortsParsed ==
    /\ pc = "ports"
    /\ ~IsCommon(Trim(ports))
    /\ parse_port_range(Trim(ports)).ok
    /\ StartScan(parse_port_range(Trim(ports)).ports)

DeterminePortsErr ==
    /\ pc = "ports"
    /\ ~IsCommon(Trim(ports))
    /\ ~parse_port_range(Trim(ports)).ok
    /\ pc' = "done"
    /\ exit_reason' = "parse_error"
    /\ err_msg' = parse_port_range(Trim(ports)).err
    /\ UNCHANGED <<inputs, port_list, permits, permit_held,
                   next_idx, task_pc, outcome, is_open, open_ports, mutex,
                   pb_pos, join_idx, report, sorted_ports, run, prev_sorted,
                   insert_log, conn, http, rep>>

(***************************************************************************)
(* scan_command, lines 74-98: the issuing loop.                            *)
(***************************************************************************)
\* an acquire that never waits (a faulty variant)
CanAcquireUngated == TRUE

\* semaphore.acquire_owned().await completes only when a permit is available
CanAcquire == permits > 0

\* line 75: take a permit for the next port of the list
Acquire ==
    /\ pc = "acquire"
    /\ next_idx < Len(port_list)
    /\ CanAcquire
    /\ permits' = permits - 1
    /\ permit_held' = TRUE
    /\ pc' = "spawn"
    /\ UNCHANGED <<inputs, exit_reason, port_list, next_idx, task_pc, outcome,
                   is_open, open_ports, mutex, pb_pos, join_idx, report,
                   sorted_ports, run, prev_sorted, insert_log, err_msg, conn, http, rep>>

\* a for loop that stops one port short of the end (a faulty variant)
LoopExhaustedEarly(issued) == issued >= Len(port_list) - 1

\* line 74: `for port in &port_list` ends when every port has been taken
LoopExhausted(issued) == issued = Len(port_list)

\* lines 76-97: move the permit into a new task, push its handle; the for
\* loop ends after the last port
Spawn ==
    /\ pc = "spawn"
    /\ task_pc' = [task_pc EXCEPT ![next_idx + 1] = "connecting"]
    /\ next_idx' = next_idx + 1
    /\ permit_held' = FALSE
    /\ pc' = IF LoopExhausted(next_idx + 1) THEN "join" ELSE "acquire"
    /\ UNCHANGED <<inputs, exit_reason, port_list, permits, outcome, is_open,
                   open_ports, mutex, pb_pos, join_idx, report, sorted_ports,
                   run, prev_sorted, insert_log, err_msg, conn, http, rep>>

(***************************************************************************)
(* scan_command, lines 81-95: one spawned task.                            *)
(***************************************************************************)
\* a match that takes every completed connect for an open port (a faulty variant)
IsOpenOnAnyCompletion(result) == result \in {"connected", "error"}

\* a match that takes the elapsed deadline for an open port (a faulty variant)
IsOpenAlsoOnTimeout(result) == result \in {"connected", "elapsed"}

\* lines 85-88: Ok(Ok(_)) => true, Ok(Err(_)) | Err(_) => false
IsOpen(result) == result = "connected"

\* the race of line 85 resolved with `result`
Settle(i, result) ==
    /\ task_pc[i] = "connecting"
    /\ outcome' = [outcome EXCEPT ![i] = result]
    /\ is_open' = [is_open EXCEPT ![i] = IsOpen(result)]
    /\ task_pc' = [task_pc EXCEPT ![i] = "classified"]
    /\ UNCHANGED <<inputs, pc, exit_reason, port_list, permits, permit_held,
                   next_idx, open_ports, mutex, pb_pos, join_idx, report,
                   sorted_ports, run, prev_sorted, insert_log, err_msg, conn, http, rep>>

\* the connect completes first, with a connection: Ok(Ok(_))
ConnectOk(i) ==
    /\ Behaviour(port_list[i]) \in {"accept", "slow"}
    /\ Settle(i, "connected")

\* the connect completes first, with an I/O error: Ok(Err(_))
ConnectErr(i) ==
    /\ Behaviour(port_list[i]) = "refuse"
    /\ Settle(i, "error")

\* the deadline fires first and the connect is dropped: Err(Elapsed)
Timeout(i) ==
    /\ Behaviour(port_list[i]) \in {"drop", "slow"}
    /\ Settle(i, "elapsed")

\* a lock that is granted while another task holds it (a faulty variant)
LockAvailableAlways == TRUE

\* tokio::sync::Mutex::lock().await completes only when no guard is alive
LockAvailable == mutex = 0

\* line 91, open_ports.lock().await: the task gets the mutex
TaskLock(i) ==
    /\ task_pc[i] = "classified"
    /\ is_open[i]
    /\ LockAvailable
    /\ mutex' = i
    /\ task_pc' = [task_pc EXCEPT ![i] = "locked"]
    /\ UNCHANGED <<inputs, pc, exit_reason, port_list, permits, permit_held,
                   next_idx, outcome, is_open, open_ports, pb_pos, join_idx,
                   report, sorted_ports, run, prev_sorted, insert_log, err_msg, conn, http, rep>>

\* a guard bound to a local that lives to the end of the task (a faulty
\* variant)
GuardKeptAfterStatement(i) == i

\* line 91: the MutexGuard is a temporary of the statement
\* `open_ports.lock().await.insert(port);` and is dropped at its semicolon
GuardAfterStatement(i) == 0

\* line 91, .insert(port); the guard is dropped at the end of the statement
TaskInsert(i) ==
    /\ task_pc[i] = "locked"
    /\ open_ports' = open_ports \cup {port_list[i]}
    /\ mutex' = GuardAfterStatement(i)
    /\ task_pc' = [task_pc EXCEPT ![i] = "recorded"]
    /\ insert_log' = Append(insert_log, port_list[i])
    /\ UNCHANGED <<inputs, pc, exit_reason, port_list, permits, permit_held,
                   next_idx, outcome, is_open, pb_pos, join_idx, report,
                   sorted_ports, run, prev_sorted, err_msg, conn, http, rep>>

\* a progress bar advanced only for open ports (a faulty variant)
TickOnlyWhenOpen(open) == IF open THEN 1 ELSE 0

\* line 94: pb.inc(1) stands after the if, outside of it
Tick(open) == 1

\* line 94: pb.inc(1), after the insert or straight after the match
TaskTick(i) ==
    /\ \/ task_pc[i] = "recorded"
       \/ task_pc[i] = "classified" /\ ~is_open[i]
    /\ pb_pos' = pb_pos + Tick(is_open[i])
    /\ task_pc' = [task_pc EXCEPT ![i] = "ticked"]
    /\ UNCHANGED <<inputs, pc, exit_reason, port_list, permits, permit_held,
                   next_idx, outcome, is_open, open_ports, mutex, join_idx,
                   report, sorted_ports, run, prev_sorted, insert_log, err_msg, conn, http, rep>>

\* a task end that keeps the permit (a faulty variant)
TaskFinishLeaking(i) ==
    /\ task_pc[i] = "ticked"
    /\ task_pc' = [task_pc EXCEPT ![i] = "finished"]
    /\ UNCHANGED <<inputs, pc, exit_reason, port_list, permits, permit_held,
                   next_idx, outcome, is_open, open_ports, mutex, pb_pos,
                   join_idx, report, sorted_ports, run, prev_sorted,
                   insert_log, err_msg, conn, http, rep>>

\* line 95: the async block runs to its end and its locals are dropped,
\* _permit among them (the permit goes back to the semaphore); nothing of
\* the task is left to run and its JoinHandle becomes ready
TaskFinish(i) ==
    /\ task_pc[i] = "ticked"
    /\ permits' = permits + 1
    /\ task_pc' = [task_pc EXCEPT ![i] = "finished"]
    /\ UNCHANGED <<inputs, pc, exit_reason, port_list, permit_held,
                   next_idx, outcome, is_open, open_ports, mutex, pb_pos,
                   join_idx, report, sorted_ports, run, prev_sorted, insert_log, err_msg, conn, http, rep>>

(***************************************************************************)
(* scan_command, lines 100-146: the join loop and the result display.      *)
(***************************************************************************)
\* a join that does not wait for the task (a faulty variant)
HandleReadyUnawaited(i) == TRUE

\* handle.await completes when the task has run to its end
HandleReady(i) == task_pc[i] = "finished"

\* lines 101-103: await the next handle, in the order they were pushed
JoinNext ==
    /\ pc = "join"
    /\ join_idx < next_idx
    /\ HandleReady(join_idx + 1)
    /\ join_idx' = join_idx + 1
    /\ UNCHANGED <<inputs, pc, exit_reason, port_list, permits, permit_held,
                   next_idx, task_pc, outcome, is_open, open_ports, mutex,
                   pb_pos, report, sorted_ports, run, prev_sorted, insert_log, err_msg, conn, http, rep>>

\* a display that always prints the list header (a faulty variant)
ReportOfAlwaysList(open) == "open_ports"

\* lines 111-114: "No open ports found" or "{} open ports found:"
ReportOf(open) == IF open = {} THEN "no_open_ports" ELSE "open_ports"

\* lines 105-146: lock the set, print the open ports in sorted order (or
\* that there are none), return Ok(())
Display ==
    /\ pc = "join"
    /\ join_idx = next_idx
    /\ LockAvailable
    /\ report' = ReportOf(open_ports)
    /\ sorted_ports' = IF open_ports = {} THEN <<>>
                       ELSE Sort(IntoIterCollect(open_ports))
    /\ pc' = "done"
    /\ exit_reason' = "completed"
    /\ UNCHANGED <<inputs, port_list, permits, permit_held, next_idx, task_pc,
                   outcome, is_open, open_ports, mutex, pb_pos, join_idx, run,
                   prev_sorted, insert_log, err_msg, conn, http, rep>>

(***************************************************************************)
(* src/main.rs, Commands::Scan: the command is run again on the same       *)
(* arguments against the same target.                                      *)
(***************************************************************************)
Rescan ==
    /\ pc = "done"
    /\ exit_reason = "completed"
    /\ run < MaxRuns
    /\ run' = run + 1
    /\ prev_sorted' = sorted_ports
    /\ pc' = "resolve"
    /\ exit_reason' = ""
    /\ port_list' = <<>>
    /\ permits' = 0
    /\ permit_held' = FALSE
    /\ next_idx' = 0
    /\ task_pc' = <<>>
    /\ outcome' = <<>>
    /\ is_open' = <<>>
    /\ open_ports' = {}
    /\ mutex' = 0
    /\ pb_pos' = 0
    /\ join_idx' = 0
    /\ report' = ""
    /\ sorted_ports' = <<>>
    /\ insert_log' = <<>>
    /\ err_msg' = ""
    /\ UNCHANGED <<inputs, conn, http, rep>>

\* a resolution failure handed to the caller as an error (a faulty variant)
ReturnValuePropagating(exit) == IF exit = "resolve_failed" THEN "Err" ELSE "Ok"

\* the value of each return statement of scan_command: lines 33, 52 and
\* 145 all return Ok(())
ReturnValue(exit) ==
    CASE exit = "resolve_failed" -> "Ok"
      [] exit = "parse_error" -> "Ok"
      [] exit = "completed" -> "Ok"
      [] OTHER -> ""

Next ==
    \/ ResolveOk
    \/ ResolveErr
    \/ DeterminePortsCommon
    \/ DeterminePortsParsed
    \/ DeterminePortsErr
    \/ Acquire
    \/ Spawn
    \/ \E i \in Tasks : ConnectOk(i)
    \/ \E i \in Tasks : ConnectErr(i)
    \/ \E i \in Tasks : Timeout(i)
    \/ \E i \in Tasks : TaskLock(i)
    \/ \E i \in Tasks : TaskInsert(i)
    \/ \E i \in Tasks : TaskTick(i)
    \/ \E i \in Tasks : TaskFinish(i)
    \/ JoinNext
    \/ Display

NextRepeat == Next \/ Rescan

Spec == Init /\ [][Next]_vars

SpecParse == InitParse /\ [][Next]_vars

SpecRepeat == Init /\ [][NextRepeat]_vars

\* the steps the async runtime schedules: the issuing loop, the spawned
\* tasks with their timers, the join loop and the display
Scheduled ==
    \/ Acquire
    \/ Spawn
    \/ \E i \in Tasks :
          \/ ConnectOk(i)
          \/ ConnectErr(i)
          \/ Timeout(i)
          \/ TaskLock(i)
          \/ TaskInsert(i)
          \/ TaskTick(i)
          \/ TaskFinish(i)
    \/ JoinNext
    \/ Display

\* the runtime keeps polling: while the issuing loop, a task or a timer can
\* make a step, a step is made
SpecLive == Init /\ [][Next]_vars /\ WF_vars(Scheduled)

(***************************************************************************)
(* src/commands/connect.rs: connect_command and its two probes.  What the  *)
(* network and the operating system answer is the record c_net:            *)
(*   tcp        the result of timeout(TcpStream::connect)                  *)
(*   local_addr the result of local_addr() on the stream or the socket     *)
(*   bind       the result of UdpSocket::bind                              *)
(*   send       the result of timeout(send_to)                             *)
(*   recv       the result of the 2 s timeout(recv_from)                   *)
(***************************************************************************)
\* the io::ErrorKind of a failed connect, as the match of lines 71-91 tells
\* them apart
TcpErrorKinds == {"ConnectionRefused", "TimedOut", "HostUnreachable", "Other"}

\* Ok(Ok(stream)), Ok(Err(e)) by kind, Err(elapsed)
TcpResults == {"connected", "elapsed"} \cup TcpErrorKinds

NetAnswers ==
    [tcp : TcpResults, local_addr : {"ok", "err"}, bind : {"ok", "err"},
     send : {"ok", "err", "elapsed"}, recv : {"reply", "err", "elapsed"}]

\* the state at the entry of connect_command, for every flag and every
\* answer of the network; scan_command is not run
InitConnect ==
    /\ host_ok = TRUE
    /\ tokens = <<T80>>
    /\ ports = JoinComma(tokens)
    /\ concurrency = 1
    /\ backend = MixedBackend
    /\ ScanEntry
    /\ run = 1
    /\ prev_sorted = <<>>
    /\ c_host_ok \in BOOLEAN
    /\ c_udp \in BOOLEAN
    /\ c_net \in NetAnswers
    /\ c_pc = "resolve"
    /\ c_status = ""
    /\ c_recv_tried = FALSE
    /\ c_exit = ""
    /\ HttpIdle
    /\ ReportIdle

\* lines 19-25 and 38-42: the host resolves, the probe of the protocol starts
ConnResolveOk ==
    /\ c_pc = "resolve"
    /\ c_host_ok
    /\ c_pc' = IF c_udp THEN "udp_bind" ELSE "tcp_connect"
    /\ UNCHANGED <<inputs, scan, run, prev_sorted, insert_log, err_msg, http, rep,
                   c_host_ok, c_udp, c_net, c_status, c_recv_tried, c_exit>>

\* lines 26-29: resolution fails, return Ok(())
ConnResolveErr ==
    /\ c_pc = "resolve"
    /\ ~c_host_ok
    /\ c_pc' = "done"
    /\ c_exit' = "resolve_failed"
    /\ UNCHANGED <<inputs, scan, run, prev_sorted, insert_log, err_msg, http, rep,
                   c_host_ok, c_udp, c_net, c_status, c_recv_tried>>

\* a probe prints its status and reaches its final Ok(()) (lines 108, 174)
ProbeReturns(status) ==
    /\ c_status' = status
    /\ c_pc' = "returned"
    /\ UNCHANGED <<inputs, scan, run, prev_sorted, insert_log, err_msg, http, rep,
                   c_host_ok, c_udp, c_net, c_exit>>

\* an unwrap() on an Err: the thread panics, nothing returns
Panic ==
    /\ c_pc' = "done"
    /\ c_exit' = "panic"
    /\ UNCHANGED <<inputs, scan, run, prev_sorted, insert_log, err_msg, http, rep,
                   c_host_ok, c_udp, c_net, c_status, c_recv_tried>>

\* lines 54-65: Ok(Ok(stream)), and stream.local_addr() is Ok
TcpConnected ==
    /\ c_pc = "tcp_connect"
    /\ c_net.tcp = "connected"
    /\ c_net.local_addr = "ok"
    /\ ProbeReturns("CONNECTED")
    /\ UNCHANGED c_recv_tried

\* line 55: Ok(Ok(stream)), and stream.local_addr() is Err: the fallback
\* "unknown".parse().unwrap() parses "unknown" as a SocketAddr, which fails
TcpLocalAddrPanic ==
    /\ c_pc = "tcp_connect"
    /\ c_net.tcp = "connected"
    /\ c_net.local_addr = "err"
    /\ Panic

\* the causes printed for each kind of error, lines 71-91
TcpFailure(kind) ==
    CASE kind = "ConnectionRefused" -> "FAILED_PORT_CLOSED"
      [] kind = "TimedOut" -> "FAILED_NETWORK_TIMEOUT"
      [] kind = "HostUnreachable" -> "FAILED_HOST_UNREACHABLE"
      [] OTHER -> "FAILED_CONNECTIVITY"

\* lines 66-93: Ok(Err(e))
TcpFailed ==
    /\ c_pc = "tcp_connect"
    /\ c_net.tcp \in TcpErrorKinds
    /\ ProbeReturns(TcpFailure(c_net.tcp))
    /\ UNCHANGED c_recv_tried

\* lines 94-105: Err(_), the timeout elapsed
TcpTimedOut ==
    /\ c_pc = "tcp_connect"
    /\ c_net.tcp = "elapsed"
    /\ ProbeReturns("TIMED_OUT")
    /\ UNCHANGED c_recv_tried

\* lines 119-126: the socket is bound and socket.local_addr() is Ok
UdpBindOk ==
    /\ c_pc = "udp_bind"
    /\ c_net.bind = "ok"
    /\ c_net.local_addr = "ok"
    /\ c_pc' = "udp_send"
    /\ UNCHANGED <<inputs, scan, run, prev_sorted, insert_log, err_msg, http, rep,
                   c_host_ok, c_udp, c_net, c_status, c_recv_tried, c_exit>>

\* line 122: socket.local_addr().unwrap() on an Err
UdpLocalAddrPanic ==
    /\ c_pc = "udp_bind"
    /\ c_net.bind = "ok"
    /\ c_net.local_addr = "err"
    /\ Panic

\* lines 169-171: bind fails
UdpBindErr ==
    /\ c_pc = "udp_bind"
    /\ c_net.bind = "err"
    /\ ProbeReturns("BIND_FAILED")
    /\ UNCHANGED c_recv_tried

\* lines 128-137: Ok(Ok(bytes_sent)), then recv_from is awaited
UdpSendOk ==
    /\ c_pc = "udp_send"
    /\ c_net.send = "ok"
    /\ c_pc' = "udp_recv"
    /\ c_recv_tried' = TRUE
    /\ UNCHANGED <<inputs, scan, run, prev_sorted, insert_log, err_msg, http, rep,
                   c_host_ok, c_udp, c_net, c_status, c_exit>>

\* lines 155-157: Ok(Err(e)) of the send
UdpSendErr ==
    /\ c_pc = "udp_send"
    /\ c_net.send = "err"
    /\ ProbeReturns("SEND_FAILED")
    /\ UNCHANGED c_recv_tried

\* lines 158-160: the send timed out
UdpSendTimeout ==
    /\ c_pc = "udp_send"
    /\ c_net.send = "elapsed"
    /\ ProbeReturns("SEND_TIMED_OUT")
    /\ UNCHANGED c_recv_tried

\* a receive error reported as a failure (a faulty variant)
RecvStatusErrFails(result) ==
    CASE result = "reply" -> "RESPONSE_RECEIVED"
      [] result = "err" -> "RECV_FAILED"
      [] OTHER -> "SENT_NO_RESPONSE"

\* the status printed by each arm of the match of lines 134-153
RecvStatus(result) ==
    CASE result = "reply" -> "RESPONSE_RECEIVED"
      [] result = "err" -> "SENT_NO_RESPONSE"
      [] OTHER -> "SENT_NO_RESPONSE"

\* lines 138-152: the three results of the timed recv_from
UdpRecv ==
    /\ c_pc = "udp_recv"
    /\ ProbeReturns(RecvStatus(c_net.recv))
    /\ UNCHANGED c_recv_tried

\* lines 42-49: the probe's Ok(()) passes the ?, the elapsed time is
\* printed, connect_command returns Ok(())
ConnComplete ==
    /\ c_pc = "returned"
    /\ c_pc' = "done"
    /\ c_exit' = "completed"
    /\ UNCHANGED <<inputs, scan, run, prev_sorted, insert_log, err_msg, http, rep,
                   c_host_ok, c_udp, c_net, c_status, c_recv_tried>>

\* what the caller of connect_command gets at each of its ends
ConnReturnValue(exit) ==
    CASE exit = "resolve_failed" -> "Ok"
      [] exit = "completed" -> "Ok"
      [] exit = "panic" -> "Panic"
      [] OTHER -> ""

NextConnect ==
    \/ ConnResolveOk
    \/ ConnResolveErr
    \/ TcpConnected
    \/ TcpLocalAddrPanic
    \/ TcpFailed
    \/ TcpTimedOut
    \/ UdpBindOk
    \/ UdpLocalAddrPanic
    \/ UdpBindErr
    \/ UdpSendOk
    \/ UdpSendErr
    \/ UdpSendTimeout
    \/ UdpRecv
    \/ ConnComplete

SpecConnect == InitConnect /\ [][NextConnect]_vars

(***************************************************************************)
(* src/commands/http.rs: perform_http_request, the redirect loop around    *)
(* send_http_request_once.  What the server answers to each request is     *)
(* chosen when the request is sent.                                        *)
(***************************************************************************)
\* line 102: const MAX_REDIRECTS: usize = 5
MAX_REDIRECTS == 5

\* the status codes the server may answer with: around the edges of 3xx
StatusCodes == {200, 299, 300, 302, 399, 400}

\* redirect_target: None, or Some(location) from a Location header
Locations == {"none", "some"}

\* the state at the entry of perform_http_request, for each client;
\* scan_command and connect_command are not run
InitHttp ==
    /\ host_ok = TRUE
    /\ tokens = <<T80>>
    /\ ports = JoinComma(tokens)
    /\ concurrency = 1
    /\ backend = MixedBackend
    /\ ScanEntry
    /\ run = 1
    /\ prev_sorted = <<>>
    /\ ConnIdle
    /\ ReportIdle
    /\ h_follow \in BOOLEAN
    /\ h_pc = "send"
    /\ redirects_followed = 0
    /\ h_requests = 0
    /\ h_status = 0
    /\ h_location = "none"
    /\ h_result = ""

\* lines 108-109: send_http_request_once returns Ok with a status code and
\* the Location header, if any (lines 198-218)
HttpSendOk ==
    /\ h_pc = "send"
    /\ \E status \in StatusCodes, location \in Locations :
          /\ h_status' = status
          /\ h_location' = location
    /\ h_requests' = h_requests + 1
    /\ h_pc' = "decide"
    /\ UNCHANGED <<inputs, scan, run, prev_sorted, insert_log, err_msg, conn,
                   rep, h_follow, redirects_followed, h_result>>

\* line 109: send_http_request_once returns Err (bad URL, connect failure or
\* timeout, https, I/O error, malformed response) and the ? returns it
HttpSendErr ==
    /\ h_pc = "send"
    /\ h_requests' = h_requests + 1
    /\ h_result' = "Err"
    /\ h_pc' = "done"
    /\ UNCHANGED <<inputs, scan, run, prev_sorted, insert_log, err_msg, conn,
                   rep, h_follow, redirects_followed, h_status, h_location>>

\* a range test that takes every status for a redirect (a faulty variant)
IsRedirectStatusAny(status) == TRUE

\* line 111: (300..=399).contains(&status_code)
IsRedirectStatus(status) == status \in 300..399

\* lines 111-113: the condition of the if
MayFollow ==
    /\ IsRedirectStatus(h_status)
    /\ h_follow
    /\ redirects_followed < MAX_REDIRECTS

\* lines 115-125: a Location is present: the next URL is resolved against
\* the current one (which send_http_request_once has just parsed, so
\* resolve_redirect cannot fail on it) and the loop continues
HttpFollow ==
    /\ h_pc = "decide"
    /\ MayFollow
    /\ h_location = "some"
    /\ redirects_followed' = redirects_followed + 1
    /\ h_pc' = "send"
    /\ UNCHANGED <<inputs, scan, run, prev_sorted, insert_log, err_msg, conn,
                   rep, h_follow, h_requests, h_status, h_location, h_result>>

\* lines 128-136: no redirect to follow: return Ok((status_code, ...))
HttpReturn ==
    /\ h_pc = "decide"
    /\ ~(MayFollow /\ h_location = "some")
    /\ h_result' = "Ok"
    /\ h_pc' = "done"
    /\ UNCHANGED <<inputs, scan, run, prev_sorted, insert_log, err_msg, conn,
                   rep, h_follow, redirects_followed, h_requests, h_status,
                   h_location>>

NextHttp ==
    \/ HttpSendOk
    \/ HttpSendErr
    \/ HttpFollow
    \/ HttpReturn

\* every request returns and the loop goes on
SpecHttp == InitHttp /\ [][NextHttp]_vars /\ WF_vars(NextHttp)

(***************************************************************************)
(* src/commands/report.rs: report_command and its four tests.  What the    *)
(* network answers to each test is chosen when the test runs.              *)
(***************************************************************************)
\* line 86: "21,22,23,25,53,80,110,143,443,993,995,3306,5432"
DefaultReportPorts ==
    <<"2", "1", ",", "2", "2", ",", "2", "3", ",", "2", "5", ",",
      "5", "3", ",", "8", "0", ",", "1", "1", "0", ",", "1", "4",
      "3", ",", "4", "4", "3", ",", "9", "9", "3", ",", "9", "9",
      "5", ",", "3", "3", "0", "6", ",", "5", "4", "3", "2">>

\* line 201: .take(100)
TakeLimit == 100

\* Iterator::take(n) on a vector
Take(s, n) == SubSeq(s, 1, IF Len(s) < n THEN Len(s) ELSE n)

\* lines 83-88 and 189-201: the ports test_port_connectivity probes.  With
\* detailed_scan the string is "1-65535", which parse_port_range turns into
\* the ascending list 1, 2, ..., 65535, and take(100) keeps 1..100; the
\* default string is parsed as it stands.
PortsProbed(detailed) ==
    IF detailed THEN [ok |-> TRUE, ports |-> [k \in 1..TakeLimit |-> k]]
    ELSE LET r == parse_port_range(DefaultReportPorts)
         IN  [ok |-> r.ok, ports |-> Take(r.ports, TakeLimit)]

\* the results of a timed TcpStream::connect
ConnectResults == {"connected", "error", "elapsed"}

\* the ports the target may have open: one that only the detailed scan
\* probes, one that only the default scan probes, one that neither probes
ReportUniverse == {7, 443, 200}

\* the state at the entry of report_command, for each argument; the other
\* commands are not run
InitReport ==
    /\ host_ok = TRUE
    /\ tokens = <<T80>>
    /\ ports = JoinComma(tokens)
    /\ concurrency = 1
    /\ backend = MixedBackend
    /\ ScanEntry
    /\ run = 1
    /\ prev_sorted = <<>>
    /\ ConnIdle
    /\ HttpIdle
    /\ r_host_ok \in BOOLEAN
    /\ r_detailed \in BOOLEAN
    /\ r_output \in {"none", "ok", "write_err"}
    /\ r_pc = "resolve"
    /\ r_tests = <<>>
    /\ r_summary = NewSummary
    /\ r_exit = ""

\* lines 42-66: the host resolves, the empty report is built
RepResolveOk ==
    /\ r_pc = "resolve"
    /\ r_host_ok
    /\ r_pc' = "test1"
    /\ UNCHANGED <<inputs, scan, run, prev_sorted, insert_log, err_msg, conn,
                   http, r_host_ok, r_detailed, r_output, r_tests, r_summary,
                   r_exit>>

\* lines 49-52: resolution fails, return Ok(())
RepResolveErr ==
    /\ r_pc = "resolve"
    /\ ~r_host_ok
    /\ r_pc' = "done"
    /\ r_exit' = "resolve_failed"
    /\ UNCHANGED <<inputs, scan, run, prev_sorted, insert_log, err_msg, conn,
                   http, r_host_ok, r_detailed, r_output, r_tests, r_summary>>

\* lines 249-253: report.tests.insert(test_name, result)
add_test_result(tests, test_name, result) ==
    [n \in (DOMAIN tests) \cup {test_name} |->
        IF n = test_name THEN result ELSE tests[n]]

\* a test has run and its result is added; the next one is `next`
RunTest(test_name, result, next) ==
    /\ r_tests' = add_test_result(r_tests, test_name, result)
    /\ r_pc' = next
    /\ UNCHANGED <<inputs, scan, run, prev_sorted, insert_log, err_msg, conn,
                   http, r_host_ok, r_detailed, r_output, r_summary, r_exit>>

\* lines 124-165: connect to port 80, and to port 443 if 80 gave an error
test_basic_connectivity(on80, on443) ==
    CASE on80 = "connected" ->
             [success |-> TRUE, details |-> "Host is reachable via TCP"]
      [] on80 = "error" /\ on443 = "connected" ->
             [success |-> TRUE, details |-> "Host is reachable via TCP (port 443)"]
      [] on80 = "error" /\ on443 # "connected" ->
             [success |-> FALSE, details |-> "Host is not reachable"]
      [] OTHER ->
             [success |-> FALSE, details |-> "Connection timeout"]

\* lines 72-74
TestBasicConnectivity ==
    /\ r_pc = "test1"
    /\ \E on80 \in ConnectResults, on443 \in ConnectResults :
          RunTest("basic_connectivity", test_basic_connectivity(on80, on443),
                  "test2")

\* lines 167-184: resolve the host once more
test_dns_resolution(resolved) ==
    IF resolved THEN [success |-> TRUE, details |-> "Resolved"]
    ELSE [success |-> FALSE, details |-> "DNS resolution failed"]

\* lines 77-79
TestDnsResolution ==
    /\ r_pc = "test2"
    /\ \E resolved \in BOOLEAN :
          RunTest("dns_resolution", test_dns_resolution(resolved), "test3")

\* lines 186-220: probe each of the ports, collect the open ones
test_port_connectivity(detailed, open) ==
    LET probed == PortsProbed(detailed)
    IN  IF ~probed.ok
        THEN [success |-> FALSE, details |-> "Invalid port range"]
        ELSE LET found == {probed.ports[k] : k \in 1..Len(probed.ports)} \cap open
             IN  IF found = {}
                 THEN [success |-> FALSE, details |-> "No open ports found"]
                 ELSE [success |-> TRUE, details |-> "Open ports"]

\* lines 82-89
TestPortConnectivity ==
    /\ r_pc = "test3"
    /\ \E open \in SUBSET ReportUniverse :
          RunTest("port_scan", test_port_connectivity(r_detailed, open), "test4")

\* lines 244-247: always Err("HTTP test not implemented")
test_simple_http(url) == [ok |-> FALSE, result |-> [success |-> FALSE, details |-> ""]]

\* lines 222-242: the http URL, then the https URL, then the failure
test_http_connectivity ==
    IF test_simple_http("http").ok THEN test_simple_http("http").result
    ELSE IF test_simple_http("https").ok THEN test_simple_http("https").result
    ELSE [success |-> FALSE, details |-> "No HTTP/HTTPS services available"]

\* lines 92-94
TestHttpConnectivity ==
    /\ r_pc = "test4"
    /\ RunTest("http_connectivity", test_http_connectivity, "summary")

\* a status that is GOOD when as many tests pass as fail (a faulty variant)
OverallStatusGoodOnTie(passed_tests, failed_tests) ==
    IF failed_tests = 0 THEN "EXCELLENT"
    ELSE IF passed_tests >= failed_tests THEN "GOOD"
    ELSE IF passed_tests > 0 THEN "PARTIAL"
    ELSE "POOR"

\* lines 101-109
OverallStatus(passed_tests, failed_tests) ==
    IF failed_tests = 0 THEN "EXCELLENT"
    ELSE IF passed_tests > failed_tests THEN "GOOD"
    ELSE IF passed_tests > 0 THEN "PARTIAL"
    ELSE "POOR"

\* lines 97-112: the summary is calculated and displayed
Summarise ==
    /\ r_pc = "summary"
    /\ LET total_tests  == Cardinality(DOMAIN r_tests)
           passed_tests == Cardinality({n \in DOMAIN r_tests : r_tests[n].success})
           failed_tests == total_tests - passed_tests
       IN  r_summary' = [total_tests |-> total_tests,
                         passed_tests |-> passed_tests,
                         failed_tests |-> failed_tests,
                         overall_status |-> OverallStatus(passed_tests, failed_tests)]
    /\ r_pc' = "save"
    /\ UNCHANGED <<inputs, scan, run, prev_sorted, insert_log, err_msg, conn,
                   http, r_host_ok, r_detailed, r_output, r_tests, r_exit>>

\* lines 115-121: no output path, or the file is written: return Ok(())
ReportReturnOk ==
    /\ r_pc = "save"
    /\ r_output \in {"none", "ok"}
    /\ r_pc' = "done"
    /\ r_exit' = "completed"
    /\ UNCHANGED <<inputs, scan, run, prev_sorted, insert_log, err_msg, conn,
                   http, r_host_ok, r_detailed, r_output, r_tests, r_summary>>

\* line 116: save_report_to_file fails and the ? returns its error
ReportSaveErr ==
    /\ r_pc = "save"
    /\ r_output = "write_err"
    /\ r_pc' = "done"
    /\ r_exit' = "save_failed"
    /\ UNCHANGED <<inputs, scan, run, prev_sorted, insert_log, err_msg, conn,
                   http, r_host_ok, r_detailed, r_output, r_tests, r_summary>>

NextReport ==
    \/ RepResolveOk
    \/ RepResolveErr
    \/ TestBasicConnectivity
    \/ TestDnsResolution
    \/ TestPortConnectivity
    \/ TestHttpConnectivity
    \/ Summarise
    \/ ReportReturnOk
    \/ ReportSaveErr

SpecReport == InitReport /\ [][NextReport]_vars

(***************************************************************************)
(* Properties of the scan (checked under Spec and SpecRepeat).             *)
(***************************************************************************)
\* tasks spawned whose async block has not yet run to its end
InFlight == {i \in Tasks : task_pc[i] \notin {"unspawned", "finished"}}

\* the join loop has awaited every handle
AfterJoin ==
    \/ pc = "join" /\ join_idx = Len(port_list)
    \/ pc = "done" /\ exit_reason = "completed"

SetOf(s) == {s[k] : k \in 1..Len(s)}

StrictlyAscending(s) == \A k \in 1..(Len(s) - 1) : s[k] < s[k + 1]

\* C1: with a ceiling C >= 1, the number of probe tasks spawned and not yet
\* finished (their async block still running) is at most C in every
\* reachable state, whatever the length of the port list and the order in
\* which probes complete.
C1_InFlightAtMostCeiling ==
    concurrency >= 1 => Cardinality(InFlight) <= concurrency

\* C1 witness: a list longer than the ceiling, the ceiling reached, and a
\* later-spawned task finished while an earlier one is still running.
C1_Witness ==
    /\ concurrency = 2
    /\ Len(port_list) > concurrency
    /\ Cardinality(InFlight) = concurrency
    /\ \E i, j \in Tasks :
          i < j /\ task_pc[j] = "finished" /\ task_pc[i] = "connecting"

\* C2: a scan with ceiling 0 is rejected before any probe is started: it
\* never enters the issuing loop to wait for a permit.
C2_ZeroCeilingRejected ==
    concurrency = 0 => pc \notin {"acquire", "spawn", "join"}

C4_TimedOutNeverOpen ==
    \A i \in Tasks :
        outcome[i] = "elapsed" =>
            /\ ~is_open[i]
            /\ port_list[i] \notin open_ports
            /\ port_list[i] \notin SetOf(sorted_ports)

\* C4 witness: a finished scan in which a late-accepting port timed out
\* while another port was found open.
C4_Witness ==
    /\ pc = "done"
    /\ exit_reason = "completed"
    /\ open_ports # {}
    /\ \E i \in Tasks :
          /\ Behaviour(port_list[i]) = "slow"
          /\ outcome[i] = "elapsed"
          /\ task_pc[i] = "finished"

\* each port's probe result is a function of the port only
DeterministicBackend ==
    \A i \in Tasks : Behaviour(port_list[i]) # "slow"

\* C5: against a backend whose answer is a function of the port only, a
\* repeated scan of the same port list with the same ceiling displays the
\* same sorted open-port sequence as the scan before it, whatever the
\* interleaving of either run.
C5_RepeatedScansAgree ==
    (/\ run >= 2
     /\ pc = "done"
     /\ exit_reason = "completed"
     /\ DeterministicBackend) => sorted_ports = prev_sorted

\* C5 witness: a second scan of three or more ports under ceiling 2 that
\* ends with two open ports and one closed one.
C5_Witness ==
    /\ run = 2
    /\ pc = "done"
    /\ exit_reason = "completed"
    /\ DeterministicBackend
    /\ concurrency = 2
    /\ Len(port_list) >= 3
    /\ Len(sorted_ports) = 2
    /\ sorted_ports = prev_sorted

(***************************************************************************)
(* Properties of the parser (checked under SpecParse).                     *)
(***************************************************************************)
\* parse_port_range was called and returned Ok
ParseAccepted ==
    /\ tokens \notin CommonSpecs
    /\ pc \notin {"resolve", "ports"}
    /\ exit_reason \notin {"resolve_failed", "parse_error"}

\* parse_port_range or the preset branch has been taken
PortsDetermined ==
    /\ pc \notin {"resolve", "ports"}
    /\ exit_reason # "resolve_failed"

\* C6: every sequence parse_port_range returns is strictly ascending, hence
\* free of duplicates, also when tokens overlap or repeat.
C6_ParsedStrictlyAscending ==
    ParseAccepted => StrictlyAscending(port_list)

\* C6 witness: a single port listed before a range that contains it.
C6_Witness ==
    /\ ParseAccepted
    /\ tokens = <<T81, T80to82>>
    /\ port_list = <<80, 81, 82>>

\* C7: port 0 is rejected wherever it appears, as a single token and as an
\* endpoint of a range, so every returned port lies in 1..65535.
C7_ParsedPortsInRange ==
    ParseAccepted => \A k \in 1..Len(port_list) : port_list[k] \in 1..U16Max

\* the port sets of the well-formed tokens, written out
C8_Denotation ==
    [t \in {T22, T80, T81, T443, T080, TPadded80, T65535, T80to82, T81to81} |->
        CASE t = T22 -> {22}
          [] t = T80 -> {80}
          [] t = T81 -> {81}
          [] t = T443 -> {443}
          [] t = T080 -> {80}
          [] t = TPadded80 -> {80}
          [] t = T65535 -> {65535}
          [] t = T80to82 -> {80, 81, 82}
          [] t = T81to81 -> {81}]

\* C8: for a specification made only of valid tokens, parse_port_range
\* returns the ascending enumeration of the union of the tokens' port sets
\* (n denotes {n}, a-b denotes {a..b}): nothing added, nothing dropped,
\* whatever the order of the tokens.
C8_ParsedIsUnionOfTokens ==
    (/\ PortsDetermined
     /\ \A k \in 1..Len(tokens) : tokens[k] \in DOMAIN C8_Denotation) =>
        /\ exit_reason # "parse_error"
        /\ SetOf(port_list) =
               UNION {C8_Denotation[tokens[k]] : k \in 1..Len(tokens)}
        /\ StrictlyAscending(port_list)

\* C8 witness: a single port given before a range of smaller ports.
C8_Witness ==
    /\ PortsDetermined
    /\ tokens = <<T443, T80to82>>
    /\ port_list = <<80, 81, 82, 443>>

\* the invalid tokens the claim lists: non-numeric, above 65535, zero,
\* start > end, a missing end, a missing start
C9_InvalidTokens == {TAbc, T65536, T0, T443to80, T80Dash, TDash80}

\* C9: if any token of the list is invalid, the whole parse fails and no
\* partial port list is produced or probed, wherever the invalid token
\* stands and whatever valid tokens surround it.
C9_FailsClosed ==
    (/\ PortsDetermined
     /\ \E k \in 1..Len(tokens) : tokens[k] \in C9_InvalidTokens) =>
        /\ pc = "done"
        /\ exit_reason = "parse_error"
        /\ port_list = <<>>
        /\ next_idx = 0

\* C9 witness: an invalid token after a valid one.
C9_Witness ==
    /\ tokens = <<T80to82, TDash80>>
    /\ pc = "done"
    /\ exit_reason = "parse_error"

\* C10: the specification "common", in any letter case and with surrounding
\* whitespace, never takes the parse-error exit, and the list probed is the
\* built-in preset, ascending and without duplicates.
C10_CommonIsPreset ==
    (/\ PortsDetermined
     /\ ports \in {TCommon, TCommonUpper, TCommonPadded}) =>
        /\ exit_reason # "parse_error"
        /\ StrictlyAscending(port_list)
        /\ SetOf(port_list) = SetOf(get_common_ports)

\* C10 witness: "common" in mixed case between a blank and a tab, probed.
C10_Witness ==
    /\ ports = TCommonPadded
    /\ pc = "join"
    /\ Len(port_list) = 17
    /\ pb_pos > 0

(***************************************************************************)
(* Further properties of the scan.                                         *)
(***************************************************************************)
EarlyExits == {"resolve_failed", "parse_error"}

\* C11: the open ports scan_command reports are listed in ascending port
\* order, whatever order the probes completed and were inserted in.
C11_ReportedAscending ==
    /\ StrictlyAscending(sorted_ports)
    /\ (pc = "done" /\ exit_reason = "completed") =>
           SetOf(sorted_ports) = open_ports

\* C11 witness: two or more open ports reported, the first two of them
\* inserted in descending order.
C11_Witness ==
    /\ pc = "done"
    /\ report = "open_ports"
    /\ Len(insert_log) >= 2
    /\ insert_log[1] > insert_log[2]
    /\ Len(sorted_ports) = Len(insert_log)

\* C12: only a resolution failure or a parse error ends scan_command early,
\* and both do so before any probe: no permit acquired, no task spawned, no
\* result produced, and the command returns Ok.
C12_EarlyExitBeforeProbing ==
    /\ pc = "done" => exit_reason \in EarlyExits \cup {"completed"}
    /\ exit_reason \in EarlyExits =>
           /\ pc = "done"
           /\ ReturnValue(exit_reason) = "Ok"
           /\ permits = 0 /\ ~permit_held
           /\ next_idx = 0 /\ task_pc = <<>>
           /\ open_ports = {} /\ insert_log = <<>> /\ pb_pos = 0
           /\ report = "" /\ sorted_ports = <<>>
    /\ (permit_held \/ next_idx > 0) => exit_reason \in {"", "completed"}

\* C12 witness: the host resolved and the port specification was rejected.
C12_Witness ==
    /\ host_ok
    /\ concurrency >= 1
    /\ pc = "done"
    /\ exit_reason = "parse_error"
    /\ err_msg # ""

\* C13: once probing has started no probe outcome aborts the scan or the
\* sibling probes: the command ends only after every port of the list was
\* probed and its task ran to the end, it returns Ok, and with no open port
\* it reports "no open ports".
C13_ProbeOutcomesNeverAbort ==
    /\ (next_idx > 0 /\ pc = "done") => exit_reason = "completed"
    /\ (pc = "done" /\ exit_reason = "completed") =>
           /\ ReturnValue(exit_reason) = "Ok"
           /\ next_idx = Len(port_list)
           /\ \A i \in Tasks :
                  outcome[i] # "pending" /\ task_pc[i] = "finished"
           /\ report = IF open_ports = {} THEN "no_open_ports"
                       ELSE "open_ports"
           /\ open_ports = {} => sorted_ports = <<>>

\* C13 witness: a finished scan of three or more ports, some refused, some
\* timed out, none open.
C13_Witness ==
    /\ pc = "done"
    /\ exit_reason = "completed"
    /\ Len(port_list) >= 3
    /\ \E i, j \in Tasks : outcome[i] = "error" /\ outcome[j] = "elapsed"
    /\ \A i \in Tasks : outcome[i] # "connected"
    /\ report = "no_open_ports"

\* C14: with a ceiling >= 1, once the issuing loop is entered the scan
\* finishes: every port is issued, the loop does not wait forever for a
\* permit (a hung probe gives its permit back at its own deadline), and the
\* join loop is passed.
C14_ScanTerminates ==
    (concurrency >= 1 /\ pc = "acquire") ~>
        (/\ pc = "done"
         /\ exit_reason = "completed"
         /\ next_idx = Len(port_list)
         /\ join_idx = Len(port_list))

\* C14 witness: the issuing loop waits for a permit, ports are left to
\* issue, and a running probe hangs on a port that never answers.
C14_Witness ==
    /\ concurrency >= 1
    /\ pc = "acquire"
    /\ permits = 0
    /\ next_idx < Len(port_list)
    /\ \E i \in Tasks :
          task_pc[i] = "connecting" /\ Behaviour(port_list[i]) = "drop"

(***************************************************************************)
(* Further properties of the parser (checked under SpecParse).             *)
(***************************************************************************)
\* each piece with its whitespace taken out, written out
C15_Unspaced ==
    [t \in TokenSet |->
        CASE t = TPadded80 -> T80
          [] t = T80to82Spaced -> T80to82
          [] OTHER -> t]

\* the specification with the whitespace of every piece taken out
C15_Plain == JoinComma([k \in 1..Len(tokens) |-> C15_Unspaced[tokens[k]]])

\* C15: a specification gives the same result with or without whitespace
\* around its tokens and around the dash of a range: whenever the
\* specification without the whitespace is accepted, the one with it is
\* accepted too and yields the same ports (" 80 " like "80", "80 - 82" like
\* "80-82").
C15_WhitespaceInsensitive ==
    (/\ PortsDetermined
     /\ tokens \notin CommonSpecs
     /\ parse_port_range(C15_Plain).ok) =>
        /\ exit_reason # "parse_error"
        /\ port_list = parse_port_range(C15_Plain).ports

\* the pieces with more than one dash
C16_MalformedRanges == {T1to2to3, T80DashDash82}

\* the pieces with exactly one dash and an endpoint that does not parse
C16_BadEndpoints == {T80Dash, TDash80}

\* C16: a token with a dash that is not exactly one dash-separated pair
\* fails with the invalid-range-format error, and only such a token does; a
\* pair with an unparsable endpoint fails with an invalid-port error and a
\* pair with start > end with the start-greater-than-end error, each
\* distinct from the format error.
C16_RangeFormatError ==
    (PortsDetermined /\ tokens \notin CommonSpecs) =>
        /\ tokens[1] \in C16_MalformedRanges =>
               exit_reason = "parse_error" /\ err_msg = "InvalidRangeFormat"
        /\ tokens[1] \in C16_BadEndpoints =>
               /\ exit_reason = "parse_error"
               /\ err_msg \in {"InvalidStartPort", "InvalidEndPort"}
        /\ tokens[1] = T443to80 =>
               exit_reason = "parse_error" /\ err_msg = "StartGreaterThanEnd"
        /\ err_msg = "InvalidRangeFormat" =>
               \E k \in 1..Len(tokens) : tokens[k] \in C16_MalformedRanges

\* C16 witness: a token with two dashes after a valid token, rejected for
\* its format.
C16_Witness ==
    /\ tokens = <<T80, T1to2to3>>
    /\ pc = "done"
    /\ exit_reason = "parse_error"
    /\ err_msg = "InvalidRangeFormat"

\* C17: the empty specification fails with the no-ports-specified error and
\* with no other error kind, and no accepted specification yields an empty
\* list.
C17_EmptyIsNoPortsSpecified ==
    /\ (PortsDetermined /\ tokens = <<TEmpty>>) =>
           exit_reason = "parse_error" /\ err_msg = "NoPortsSpecified"
    /\ ParseAccepted => port_list # <<>>

(***************************************************************************)
(* Properties of connect_command (checked under SpecConnect).              *)
(***************************************************************************)
\* the statuses of a UDP probe that did not send
UdpFailures == {"BIND_FAILED", "SEND_FAILED", "SEND_TIMED_OUT"}

\* the probe has printed its status
Classified == c_pc \in {"returned", "done"} /\ c_status # ""

\* C18: in the UDP test, once the payload is sent, a receive timeout or a
\* receive error is classified SENT_NO_RESPONSE and a reply
\* RESPONSE_RECEIVED; a failure status comes only from a bind failure, a
\* send error or a send timeout, and no receive is attempted after a failed
\* send.
C18_UdpClassification ==
    c_udp =>
        /\ c_status \in {"", "RESPONSE_RECEIVED", "SENT_NO_RESPONSE"}
                            \cup UdpFailures
        /\ c_recv_tried => c_net.bind = "ok" /\ c_net.send = "ok"
        /\ (Classified /\ c_recv_tried) =>
               c_status = IF c_net.recv = "reply" THEN "RESPONSE_RECEIVED"
                          ELSE "SENT_NO_RESPONSE"
        /\ c_status \in UdpFailures =>
               /\ ~c_recv_tried
               /\ c_net.bind = "err" \/ c_net.send \in {"err", "elapsed"}
        /\ (Classified /\ ~c_recv_tried) => c_status \in UdpFailures

\* C18 witness: the payload was sent, the receive returned an error, and the
\* command completed with SENT_NO_RESPONSE.
C18_Witness ==
    /\ c_udp
    /\ c_net.recv = "err"
    /\ c_recv_tried
    /\ c_status = "SENT_NO_RESPONSE"
    /\ c_exit = "completed"

\* C19: for every TCP result and every UDP result the probe returns Ok and
\* connect_command completes with Ok after classifying the result; only a
\* resolution failure takes the early exit, also with Ok.
C19_ProbeNeverEscapes ==
    /\ c_pc = "done" => ConnReturnValue(c_exit) = "Ok"
    /\ c_exit = "resolve_failed" => ~c_host_ok /\ c_status = ""
    /\ c_exit = "completed" => c_host_ok /\ c_status # ""
    /\ (c_host_ok /\ c_pc = "done") => c_exit = "completed"

(***************************************************************************)
(* The join barrier (checked under Spec).                                  *)
(***************************************************************************)
\* C20: the result set is read (the report is made) only when every spawned
\* task has run to its end, and once the join loop has finished no step
\* changes the open-port set.
C20_ResultFinalAfterJoin ==
    [][/\ AfterJoin => open_ports' = open_ports
       /\ report' # report =>
              /\ \A i \in 1..next_idx : task_pc[i] = "finished"
              /\ sorted_ports' = Sort(IntoIterCollect(open_ports))
       /\ AfterJoin' => \A i \in 1..next_idx' : task_pc'[i] = "finished"]_vars

\* C20 witness: a scan whose tasks recorded two open ports, in descending
\* order, has been joined and reported.
C20_Witness ==
    /\ pc = "done"
    /\ exit_reason = "completed"
    /\ Cardinality(open_ports) = 2
    /\ Len(insert_log) = 2
    /\ Len(port_list) = 3
    /\ \A i \in Tasks : task_pc[i] = "finished"

(***************************************************************************)
(* The shared resources of the scan (checked under Spec).                  *)
(***************************************************************************)
\* the semaphore, the handles and the shared set exist (lines 69-71 ran)
ScanStarted ==
    \/ pc \in {"acquire", "spawn", "join"}
    \/ pc = "done" /\ exit_reason = "completed"

\* the tasks that have made their insert
Recorders ==
    {i \in Tasks : is_open[i] /\ task_pc[i] \in {"recorded", "ticked", "finished"}}

\* C21: inserts into the shared set are atomic with respect to each other:
\* at most one task is inside the insert at a time, and in every
\* interleaving the set holds exactly the ports of the tasks that have made
\* their insert, one element per insert (no lost update).
C21_NoLostUpdate ==
    /\ \A i, j \in Tasks :
           (task_pc[i] = "locked" /\ task_pc[j] = "locked") => i = j
    /\ open_ports = {port_list[i] : i \in Recorders}
    /\ Cardinality(open_ports) = Len(insert_log)

\* C21 witness: two tasks in flight at the same time have both made their
\* insert, the later-spawned one first, and both ports are in the set.
C21_Witness ==
    \E i, j \in Tasks :
        /\ i < j
        /\ task_pc[i] = "recorded"
        /\ task_pc[j] = "recorded"
        /\ insert_log = <<port_list[j], port_list[i]>>
        /\ open_ports = {port_list[i], port_list[j]}

\* the units of the semaphore that are not available
UnitsOut == concurrency - permits

\* the unit the issuing loop holds between acquire and spawn
LoopUnits == IF permit_held THEN 1 ELSE 0

\* C22: each probe task releases its unit on completion for every outcome,
\* and it releases it before it reports its outcome: a task that has reached
\* its insert holds no unit any more.
C22_ReleasedBeforeReport ==
    ScanStarted =>
        UnitsOut - LoopUnits <=
            Cardinality({i \in Tasks : task_pc[i] \in {"connecting", "classified"}})

\* C22 (amended): each probe task releases its unit for every outcome
\* (connected, error, elapsed), and it does so when the task ends, after the
\* insert into the result set and the progress tick: a unit comes back
\* exactly in the step in which a task finishes.
C22_ReleasedAtTaskEnd ==
    [][/\ \A i \in Tasks :
              (task_pc[i] # "finished" /\ task_pc'[i] = "finished") =>
                  /\ permits' = permits + 1
                  /\ outcome[i] # "pending"
                  /\ task_pc[i] = "ticked"
                  /\ is_open[i] => port_list[i] \in open_ports
       /\ (ScanStarted /\ permits' > permits) =>
              \E i \in Tasks : task_pc[i] # "finished" /\ task_pc'[i] = "finished"
      ]_vars

\* C22 witness: a task with each of the three outcomes has finished and all
\* the units are back.
C22_Witness ==
    /\ concurrency = 1
    /\ permits = 1
    /\ \E i, j, k \in Tasks :
          /\ task_pc[i] = "finished" /\ outcome[i] = "connected"
          /\ task_pc[j] = "finished" /\ outcome[j] = "error"
          /\ task_pc[k] = "finished" /\ outcome[k] = "elapsed"

\* C23: no lock is held across a network suspension point: a task that
\* waits on its connect/timeout race does not hold the mutex, and the mutex
\* is held only by a task between its lock and its insert.
C23_NoLockAcrossConnect ==
    /\ mutex # 0 =>
           /\ mutex \in Tasks
           /\ task_pc[mutex] = "locked"
           /\ outcome[mutex] # "pending"
    /\ \A i \in Tasks : task_pc[i] \in {"connecting", "unspawned"} => mutex # i
    /\ pc = "done" => mutex = 0

\* C23 witness: one task holds the mutex for its insert while another is
\* still waiting on its connect.
C23_Witness ==
    \E i, j \in Tasks :
        /\ mutex = i
        /\ task_pc[i] = "locked"
        /\ task_pc[j] = "connecting"
        /\ Behaviour(port_list[j]) = "drop"

\* C24: each port of the list gets exactly one probe per scan: ports are
\* distinct, one task is spawned per step of the loop, a settled outcome is
\* never replaced, and when the scan completes every port has been spawned
\* and settled.
C24_OneProbePerPort ==
    [][/\ \A i, j \in Tasks : port_list[i] = port_list[j] => i = j
       /\ \A i \in Tasks :
              /\ outcome[i] # "pending" => outcome'[i] = outcome[i]
              /\ task_pc[i] # "unspawned" => task_pc'[i] # "unspawned"
              /\ task_pc[i] = "finished" => task_pc'[i] = "finished"
       /\ next_idx' \in {next_idx, next_idx + 1}
       /\ (pc' = "done" /\ exit_reason' = "completed") =>
              /\ next_idx' = Len(port_list')
              /\ \A i \in 1..Len(port_list') :
                     task_pc'[i] = "finished" /\ outcome'[i] # "pending"
      ]_vars

\* C24 witness: a completed scan of three ports, none of them open.
C24_Witness ==
    /\ pc = "done"
    /\ exit_reason = "completed"
    /\ Len(port_list) = 3
    /\ next_idx = 3
    /\ open_ports = {}
    /\ \A i \in Tasks : outcome[i] \in {"error", "elapsed"}

\* C25: probes are submitted in ascending port order by the single issuing
\* loop: the tasks spawned are those of the first next_idx ports of the
\* ascending list, so no probe is launched before those of all smaller
\* ports.  (Completions are not ordered: see the witness.)
C25_SubmittedAscending ==
    /\ StrictlyAscending(port_list)
    /\ next_idx <= Len(port_list)
    /\ \A i \in Tasks : task_pc[i] # "unspawned" <=> i <= next_idx
    /\ \A i, j \in Tasks :
           (port_list[i] < port_list[j] /\ task_pc[j] # "unspawned") =>
               task_pc[i] # "unspawned"

\* C25 witness: the probe of a larger port has finished while the probe of
\* a smaller port, submitted before it, is still connecting.
C25_Witness ==
    \E i, j \in Tasks :
        /\ port_list[i] < port_list[j]
        /\ task_pc[i] = "connecting"
        /\ task_pc[j] = "finished"

\* C26: the progress bar gets exactly one tick per completed probe, whatever
\* the outcome: its position is the number of tasks past pb.inc, it never
\* exceeds the number of probes launched, and after the join it equals the
\* number of ports submitted.
C26_OneTickPerProbe ==
    /\ pb_pos = Cardinality({i \in Tasks : task_pc[i] \in {"ticked", "finished"}})
    /\ pb_pos <= next_idx
    /\ AfterJoin => pb_pos = Len(port_list)

\* C26 witness: after the join of a scan with a closed and a timed-out port
\* the bar stands at the length of the list.
C26_Witness ==
    /\ pc = "join"
    /\ join_idx = Len(port_list)
    /\ pb_pos = 3
    /\ \E i, j \in Tasks : outcome[i] = "error" /\ outcome[j] = "elapsed"

\* C27: units are conserved: with ceiling C the available units plus the
\* units held by unfinished tasks and by the issuing loop equal C in every
\* state of a scan, no count is negative, and once every task has completed
\* all C units are available.
C27_UnitsConserved ==
    ScanStarted =>
        /\ permits >= 0
        /\ permits + LoopUnits + Cardinality(InFlight) = concurrency
        /\ permit_held <=> pc = "spawn"
        /\ (\A i \in Tasks : task_pc[i] = "finished") => permits = concurrency

\* C27 witness: ceiling 2, one unit held by the loop and one by a task.
C27_Witness ==
    /\ concurrency = 2
    /\ permits = 0
    /\ permit_held
    /\ Cardinality(InFlight) = 1
    /\ \E i \in Tasks : task_pc[i] = "finished"

\* C28: when the results are displayed, the ports shown are exactly the
\* submitted ports whose connect succeeded before the timeout: a subset of
\* the list, with no port whose probe failed or timed out and every port
\* whose probe succeeded.
C28_DisplayedAreConnected ==
    (pc = "done" /\ exit_reason = "completed") =>
        /\ SetOf(sorted_ports) =
               {port_list[i] : i \in {k \in Tasks : outcome[k] = "connected"}}
        /\ open_ports = SetOf(sorted_ports)
        /\ SetOf(sorted_ports) \subseteq SetOf(port_list)
        /\ \A i \in Tasks :
               outcome[i] \in {"error", "elapsed"} =>
                   port_list[i] \notin SetOf(sorted_ports)

\* C28 witness: a slow port that connected in time is displayed, a dropped
\* one is not.
C28_Witness ==
    /\ pc = "done"
    /\ exit_reason = "completed"
    /\ \E i, j \in Tasks :
          /\ Behaviour(port_list[i]) = "slow"
          /\ outcome[i] = "connected"
          /\ port_list[i] \in SetOf(sorted_ports)
          /\ outcome[j] = "elapsed"
          /\ port_list[j] \notin SetOf(sorted_ports)

(***************************************************************************)
(* The redirect loop (checked under SpecHttp).                             *)
(***************************************************************************)
\* the bounds of the loop that hold in every state
C29_Bounds ==
    /\ redirects_followed \in 0..MAX_REDIRECTS
    /\ h_requests <= MAX_REDIRECTS + 1
    /\ h_requests = redirects_followed + (IF h_pc = "send" THEN 0 ELSE 1)
    /\ ~h_follow => redirects_followed = 0
    /\ (h_pc = "done" /\ ~h_follow) => h_requests = 1

\* what holds of every redirect that is followed
C29_FollowStep ==
    redirects_followed' # redirects_followed =>
        /\ redirects_followed' = redirects_followed + 1
        /\ h_status \in 300..399
        /\ h_follow
        /\ h_location = "some"
        /\ redirects_followed < MAX_REDIRECTS

\* C29: perform_http_request terminates when each request returns: it
\* follows at most 5 redirects and so sends at most 6 requests, follows a
\* redirect only on a 3xx status with follow_redirects set and a Location
\* present, and sends exactly one request when follow_redirects is not set.
C29_RedirectLoopTerminates ==
    /\ []C29_Bounds
    /\ [][C29_FollowStep]_vars
    /\ (h_pc = "send") ~> (h_pc = "done")

\* C29 witness: five redirects were followed and the sixth response, again
\* a redirect with a Location, was returned as it is.
C29_Witness ==
    /\ h_pc = "done"
    /\ h_result = "Ok"
    /\ redirects_followed = MAX_REDIRECTS
    /\ h_requests = MAX_REDIRECTS + 1
    /\ h_status = 302
    /\ h_location = "some"

(***************************************************************************)
(* The report summary (checked under SpecReport).                          *)
(***************************************************************************)
\* the summary of the report has been calculated
Summarised == r_pc \in {"save", "done"} /\ r_exit # "resolve_failed"

=============================================================================
